---- MODULE Spec2Model ----
(***************************************************************************)
(* A model of obsidiantools' Vault (src/obsidiantools/api.py): the file    *)
(* indexes built by the constructor, connect(), gather(), the reset of     *)
(* is_connected through its setter, and the per-note accessors.            *)
(*                                                                         *)
(* Strings (file names, relative paths, link texts, index keys) are        *)
(* sequences of atoms: <<"X", "/", "A", ".md">> is the string "X/A.md".    *)
(* An atom is a piece of text without separator characters, or one of the *)
(* separators "/", "|", "#", "\\", " ", or an extension such as ".md".     *)
(* Two strings are equal exactly when their atom sequences are equal.      *)
(*                                                                         *)
(* Python lists that the code produces with list(set(...)) hold distinct   *)
(* elements in an unspecified order; they are modelled as sets.            *)
(***************************************************************************)
EXTENDS Integers, Sequences, FiniteSets, TLC

VARIABLES
    fs,                       \* the vault directory: relpath -> file content
    arg_include_subdirs,      \* the include_subdirs argument of Vault(...)
    arg_include_root,         \* the include_root argument of Vault(...)
    md_file_index,            \* dict (insertion ordered): <<key, relpath>> pairs
    canvas_file_index,        \* dict (insertion ordered): <<key, relpath>> pairs
    media_file_index,         \* dict: key -> relpath
    attachments,              \* "None" | "False" | "True"
    is_connected,
    is_gathered,
    graph,                    \* NoneGraph or [nodes, edges]
    backlinks_index,
    wikilinks_index,
    unique_wikilinks_index,
    embedded_files_index,
    md_links_index,
    unique_md_links_index,
    tags_index,
    front_matter_index,
    nonexistent_notes,
    isolated_notes,
    nonexistent_media_files,
    isolated_media_files,
    nonexistent_canvas_files,
    isolated_canvas_files,
    canvas_content_index,
    source_text_index,
    readable_text_index,
    call,                     \* the last call: [op, arg]
    result                    \* its outcome: "none" | "ok" | "AttributeError" | "ValueError"

connectVars ==
    <<attachments, is_connected, graph, backlinks_index, wikilinks_index,
      unique_wikilinks_index, embedded_files_index, md_links_index,
      unique_md_links_index, tags_index, front_matter_index,
      nonexistent_notes, isolated_notes, nonexistent_media_files,
      isolated_media_files, nonexistent_canvas_files, isolated_canvas_files,
      canvas_content_index, media_file_index>>

gatherVars == <<is_gathered, source_text_index, readable_text_index>>

vaultVars ==
    <<md_file_index, canvas_file_index, connectVars, gatherVars>>

\* what the Vault is constructed from
inputVars == <<fs, arg_include_subdirs, arg_include_root>>

vars == <<inputVars, vaultVars, call, result>>

-----------------------------------------------------------------------------
(* Bounds of the model. *)

\* most files in a vault directory
MaxFiles == 3
\* most [[...]] occurrences in all notes of a vault together
MaxLinks == 2
\* most atoms of the text inside one [[...]]
MaxText == 4

-----------------------------------------------------------------------------
(* Generic helpers on sequences, sets and dicts. *)

Range(s) == {s[i] : i \in DOMAIN s}

RECURSIVE SumFn(_)
\* sum(f.values()) for a dict of numbers held as a function
SumFn(f) ==
    IF DOMAIN f = {} THEN 0
    ELSE LET x == CHOOSE y \in DOMAIN f : TRUE
         IN  f[x] + SumFn([y \in DOMAIN f \ {x} |-> f[y]])

RECURSIVE Flatten(_)
\* itertools.chain(*lists)
Flatten(ss) == IF ss = <<>> THEN <<>> ELSE Head(ss) \o Flatten(Tail(ss))

\* number of occurrences of x in the list s
Count(s, x) == Cardinality({i \in DOMAIN s : s[i] = x})

RECURSIVE Orders(_)
\* all orders in which the elements of a finite set can be listed
Orders(S) ==
    IF S = {} THEN {<<>>}
    ELSE UNION {{<<x>> \o s : s \in Orders(S \ {x})} : x \in S}

RECURSIVE SetToSeq(_)
\* some fixed listing of a finite set (used where the order has no effect)
SetToSeq(S) ==
    IF S = {} THEN <<>>
    ELSE LET x == CHOOSE y \in S : TRUE IN <<x>> \o SetToSeq(S \ {x})

\* an insertion-ordered dict is a sequence of <<key, value>> pairs
Keys(d) == {d[i][1] : i \in DOMAIN d}
KeySeq(d) == [i \in DOMAIN d |-> d[i][1]]
Get(d, k) == d[CHOOSE i \in DOMAIN d : d[i][1] = k][2]

RECURSIVE DictFromPairs(_)
\* {k: v for k, v in pairs}: a repeated key keeps its first position and
\* takes the last value
DictFromPairs(pairs) ==
    IF pairs = <<>> THEN <<>>
    ELSE LET n == Len(pairs)
             front == DictFromPairs(SubSeq(pairs, 1, n - 1))
             last == pairs[n]
         IN  IF last[1] \in Keys(front)
             THEN [i \in DOMAIN front |->
                     IF front[i][1] = last[1] THEN last ELSE front[i]]
             ELSE Append(front, last)

RECURSIVE DictFromKeysLast(_)
\* duplicates removed, last occurrences kept in order
DictFromKeysLast(xs) ==
    IF xs = <<>> THEN <<>>
    ELSE LET rest == DictFromKeysLast(Tail(xs))
         IN  IF Head(xs) \in Range(rest) THEN rest ELSE <<Head(xs)>> \o rest

RECURSIVE DictFromKeys(_)
\* list(dict.fromkeys(xs)): duplicates removed, first occurrences kept in order
DictFromKeys(xs) ==
    IF xs = <<>> THEN <<>>
    ELSE LET n == Len(xs)
             front == DictFromKeys(SubSeq(xs, 1, n - 1))
         IN  IF xs[n] \in Range(front) THEN front ELSE Append(front, xs[n])

\* the same dict as a function key -> value
AsFunction(d) == [k \in Keys(d) |-> Get(d, k)]

-----------------------------------------------------------------------------
(* Strings and paths (pathlib.PurePath on posix). *)

ExtMd == ".md"
ExtCanvas == ".canvas"
\* _constants.py: CANVAS_EXT_SET, and the media extension sets
CANVAS_EXT_SET == {".canvas", ".CANVAS"}
MEDIA_EXT_SET == {".png", ".PNG", ".jpg", ".pdf"}
ExtAtoms == {ExtMd} \cup CANVAS_EXT_SET \cup MEDIA_EXT_SET

\* position of the last atom a in s, 0 when there is none
LastIndexOf(s, a) ==
    LET hits == {i \in DOMAIN s : s[i] = a}
    IN  IF hits = {} THEN 0 ELSE CHOOSE i \in hits : \A j \in hits : j <= i

\* position of the first atom a in s, Len(s) + 1 when there is none
FirstIndexOf(s, a) ==
    LET hits == {i \in DOMAIN s : s[i] = a}
    IN  IF hits = {} THEN Len(s) + 1 ELSE CHOOSE i \in hits : \A j \in hits : i <= j

\* Path.name
PathName(p) == SubSeq(p, LastIndexOf(p, "/") + 1, Len(p))

\* Path.suffix: "" when the name has no extension
PathSuffix(p) ==
    LET nm == PathName(p)
    IN  IF Len(nm) > 1 /\ nm[Len(nm)] \in ExtAtoms THEN nm[Len(nm)] ELSE ""

\* Path.with_suffix('')
WithSuffixRemoved(p) == IF PathSuffix(p) = "" THEN p ELSE SubSeq(p, 1, Len(p) - 1)

\* Path.stem
PathStem(p) == WithSuffixRemoved(PathName(p))

\* str(Path.parent.as_posix())
ParentPosix(p) ==
    LET k == LastIndexOf(p, "/")
    IN  IF k = 0 THEN <<".">> ELSE SubSeq(p, 1, k - 1)

\* str.removesuffix('.md')
RemoveSuffixMd(s) ==
    IF Len(s) > 0 /\ s[Len(s)] = ExtMd THEN SubSeq(s, 1, Len(s) - 1) ELSE s

\* str.endswith('.canvas')
EndsWithCanvas(s) == Len(s) > 0 /\ s[Len(s)] = ExtCanvas

-----------------------------------------------------------------------------
(* File listing and the Path Resolver (_io.py, api.py). *)

\* the listing order of a glob is the directory's; any order can occur
HasExt(p, exts) == PathSuffix(p) \in exts

\* _io.get_relpaths_from_dir: glob("**/*.{extension}") over the listing
get_relpaths_from_dir(listing, extension) ==
    SelectSeq(listing, LAMBDA p : HasExt(p, {extension}))

\* the include_subdirs argument: None, or a list of strings
NoneList == [is_none |-> TRUE, items |-> <<>>]
ListOf(xs) == [is_none |-> FALSE, items |-> xs]

\* `not include_subdirs`: None and the empty list are falsy
Falsy(include_subdirs) == include_subdirs.is_none \/ include_subdirs.items = <<>>

RECURSIVE AsPosix(_)
\* str(Path(i).as_posix()): slashes at the end of i are dropped
AsPosix(i) ==
    IF Len(i) > 1 /\ i[Len(i)] = "/" THEN AsPosix(SubSeq(i, 1, Len(i) - 1)) ELSE i

\* get_relpaths_matching_subdirs that lists the whole tree under an
\* allow-listed directory
get_relpaths_under_subdirs(listing, extension, include_subdirs, include_root) ==
    LET all == get_relpaths_from_dir(listing, extension)
        include_subdirs_final == {AsPosix(i) : i \in Range(include_subdirs.items)}
        Under(p) ==
            \E k \in 1..(Len(p) - 1) :
                p[k + 1] = "/" /\ SubSeq(p, 1, k) \in include_subdirs_final
    IN  IF Falsy(include_subdirs) /\ include_root THEN all
        ELSE IF Falsy(include_subdirs) /\ ~include_root
        THEN SelectSeq(all, LAMBDA p : ParentPosix(p) # <<".">>)
        ELSE IF include_root
        THEN SelectSeq(all, LAMBDA p : Under(p) \/ ParentPosix(p) = <<".">>)
        ELSE SelectSeq(all, LAMBDA p : Under(p))

\* _io.get_relpaths_matching_subdirs
get_relpaths_matching_subdirs(listing, extension, include_subdirs, include_root) ==
    LET all == get_relpaths_from_dir(listing, extension)
        include_subdirs_final == {AsPosix(i) : i \in Range(include_subdirs.items)}
    IN  IF Falsy(include_subdirs) /\ include_root THEN all
        ELSE IF Falsy(include_subdirs) /\ ~include_root
        THEN SelectSeq(all, LAMBDA p : ParentPosix(p) # <<".">>)
        ELSE IF include_root
        THEN SelectSeq(all, LAMBDA p :
                 ParentPosix(p) \in include_subdirs_final \cup {<<".">>})
        ELSE SelectSeq(all, LAMBDA p : ParentPosix(p) \in include_subdirs_final)

\* _io._get_valid_filepaths_by_ext_set
get_valid_filepaths_by_ext_set(listing, exts) ==
    SelectSeq(listing, LAMBDA p : HasExt(p, exts))

\* media_utils._get_all_valid_media_file_relpaths
get_all_valid_media_file_relpaths(listing) ==
    get_valid_filepaths_by_ext_set(listing, MEDIA_EXT_SET)

\* canvas_utils._get_all_valid_canvas_file_relpaths
get_all_valid_canvas_file_relpaths(listing) ==
    get_valid_filepaths_by_ext_set(listing, CANVAS_EXT_SET)

\* the resolvers without the mask for duplicated names
ShortestPathsNoMask(names, longs) == names

\* the resolvers with a mask that lets the first file of a repeated name
\* keep the short name
ShortestPathsFirstKeeps(names, longs) ==
    [i \in DOMAIN names |->
        IF \E j \in 1..(i - 1) : names[j] = names[i] THEN longs[i] ELSE names[i]]

\* the np.unique / np.where mask shared by the two resolvers: entry i keeps
\* names[i] unless that name occurs more than once, and then takes longs[i]
ShortestPaths(names, longs) ==
    [i \in DOMAIN names |->
        IF Count(names, names[i]) > 1 THEN longs[i] ELSE names[i]]

Zip(a, b) == [i \in DOMAIN a |-> <<a[i], b[i]>>]

\* Vault.__get_relpaths_by_name (extension 'md' or 'canvas')
get_relpaths_by_name(relpaths_list, extension) ==
    LET all_file_names_list ==
            [i \in DOMAIN relpaths_list |->
                IF extension = ExtMd THEN PathStem(relpaths_list[i])
                ELSE PathName(relpaths_list[i])]
        longs ==
            [i \in DOMAIN relpaths_list |->
                IF extension = ExtMd THEN WithSuffixRemoved(relpaths_list[i])
                ELSE relpaths_list[i]]
        shortest_paths_arr == ShortestPaths(all_file_names_list, longs)
    IN  DictFromPairs(Zip(shortest_paths_arr, relpaths_list))

\* _io._get_shortest_path_by_filename
get_shortest_path_by_filename(relpaths_list) ==
    LET all_file_names_list ==
            [i \in DOMAIN relpaths_list |-> PathName(relpaths_list[i])]
        shortest_paths_arr == ShortestPaths(all_file_names_list, relpaths_list)
    IN  DictFromPairs(Zip(shortest_paths_arr, relpaths_list))

-----------------------------------------------------------------------------
(* The Link Tokenizer Adapter (md_utils.py).  The text of a note reaches   *)
(* the model as the list of matches of WIKILINK_REGEX: pairs               *)
(* <<"" or "!", text inside the brackets>>.                                *)

RemoveAtom(s, a) == SelectSeq(s, LAMBDA x : x # a)

RECURSIVE RStrip(_)
RStrip(s) ==
    IF s # <<>> /\ s[Len(s)] = " " THEN RStrip(SubSeq(s, 1, Len(s) - 1)) ELSE s

\* _remove_aliases_from_wikilink_regex_matches cutting at the first "|" that
\* has no backslash before it, and removing the backslashes afterwards
remove_aliases_at_unescaped_pipe(i) ==
    LET bars == {k \in DOMAIN i : i[k] = "|" /\ (k = 1 \/ i[k - 1] # "\\")}
        cut == IF bars = {} THEN Len(i) + 1
               ELSE CHOOSE k \in bars : \A j \in bars : k <= j
        before_alias == RStrip(RemoveAtom(SubSeq(i, 1, cut - 1), "\\"))
    IN  SubSeq(before_alias, 1, FirstIndexOf(before_alias, "#") - 1)

\* md_utils._remove_aliases_from_wikilink_regex_matches, for one match
remove_aliases_from_wikilink_regex_match(i) ==
    LET unescaped == RemoveAtom(i, "\\")
        before_alias == RStrip(SubSeq(unescaped, 1, FirstIndexOf(unescaped, "|") - 1))
    IN  SubSeq(before_alias, 1, FirstIndexOf(before_alias, "#") - 1)

\* the exclude_canvas filter that api.py asks of md_utils (keyword argument
\* exclude_canvas of _get_all_wikilinks_from_source_text)
ExcludeCanvas(link_matches_list) ==
    SelectSeq(link_matches_list, LAMBDA i : ~EndsWithCanvas(i))

\* _get_all_wikilinks_from_source_text that never leaves canvas targets out
get_all_wikilinks_keep_canvas(matches_list, remove_aliases, exclude_canvas) ==
    LET plain == SelectSeq(matches_list, LAMBDA g : g[1] = "")
        link_matches_list == [k \in DOMAIN plain |-> plain[k][2]]
        no_alias ==
            IF remove_aliases
            THEN [k \in DOMAIN link_matches_list |->
                    remove_aliases_from_wikilink_regex_match(link_matches_list[k])]
            ELSE link_matches_list
    IN  [k \in DOMAIN no_alias |-> RemoveSuffixMd(no_alias[k])]

\* _get_all_wikilinks_from_source_text returning each target once
get_all_wikilinks_deduplicated(matches_list, remove_aliases, exclude_canvas) ==
    LET plain == SelectSeq(matches_list, LAMBDA g : g[1] = "")
        link_matches_list == [k \in DOMAIN plain |-> plain[k][2]]
        no_alias ==
            IF remove_aliases
            THEN [k \in DOMAIN link_matches_list |->
                    remove_aliases_from_wikilink_regex_match(link_matches_list[k])]
            ELSE link_matches_list
        kept == IF exclude_canvas THEN ExcludeCanvas(no_alias) ELSE no_alias
    IN  DictFromKeys([k \in DOMAIN kept |-> RemoveSuffixMd(kept[k])])

\* md_utils._get_all_wikilinks_from_source_text
get_all_wikilinks_from_source_text(matches_list, remove_aliases, exclude_canvas) ==
    LET plain == SelectSeq(matches_list, LAMBDA g : g[1] = "")
        link_matches_list == [k \in DOMAIN plain |-> plain[k][2]]
        no_alias ==
            IF remove_aliases
            THEN [k \in DOMAIN link_matches_list |->
                    remove_aliases_from_wikilink_regex_match(link_matches_list[k])]
            ELSE link_matches_list
        kept == IF exclude_canvas THEN ExcludeCanvas(no_alias) ELSE no_alias
    IN  [k \in DOMAIN kept |-> RemoveSuffixMd(kept[k])]

\* _get_all_embedded_files_from_source_text cutting at the alias only
get_all_embedded_files_keep_header(matches_list, remove_aliases) ==
    LET banged == SelectSeq(matches_list, LAMBDA g : g[1] = "!")
        embedded_files_sublist == [k \in DOMAIN banged |-> banged[k][2]]
    IN  IF remove_aliases
        THEN [k \in DOMAIN embedded_files_sublist |->
                LET unescaped == RemoveAtom(embedded_files_sublist[k], "\\")
                IN  RStrip(SubSeq(unescaped, 1, FirstIndexOf(unescaped, "|") - 1))]
        ELSE embedded_files_sublist

\* md_utils._get_all_embedded_files_from_source_text
get_all_embedded_files_from_source_text(matches_list, remove_aliases) ==
    LET banged == SelectSeq(matches_list, LAMBDA g : g[1] = "!")
        embedded_files_sublist == [k \in DOMAIN banged |-> banged[k][2]]
    IN  IF remove_aliases
        THEN [k \in DOMAIN embedded_files_sublist |->
                remove_aliases_from_wikilink_regex_match(embedded_files_sublist[k])]
        ELSE embedded_files_sublist

\* md_utils._get_unique_wikilinks_from_source_text
get_unique_wikilinks_from_source_text(matches_list, remove_aliases, exclude_canvas) ==
    DictFromKeys(get_all_wikilinks_from_source_text(
                     matches_list, remove_aliases, exclude_canvas))

\* md_utils._get_md_links_from_source_text: the link of every
\* <<text, link>> match of INLINE_LINK_AFTER_HTML_PROC_REGEX
get_md_links_from_source_text(links) == [k \in DOMAIN links |-> links[k][2]]

\* md_utils._get_unique_md_links_from_source_text
get_unique_md_links_from_source_text(links) ==
    DictFromKeys([k \in DOMAIN links |-> links[k][2]])

\* md_utils.get_tags / _get_tags_from_source_text: a tag of the text is a
\* pair <<main, nested>>; TAG_MAIN_ONLY_REGEX keeps the part before any "/"
get_tags(tags, show_nested) ==
    [k \in DOMAIN tags |-> IF show_nested THEN tags[k][2] ELSE tags[k][1]]

-----------------------------------------------------------------------------
(* The Reference Reconciler and the Graph Builder (api.py). *)

\* Path(fn) of a link target: for the strings of this model the path has
\* the same parts as the string
PathOf(fn) == fn

\* set(chain(*links_index.values())) for an index note -> list
LinkedSet(links_index) == UNION {Range(links_index[k]) : k \in DOMAIN links_index}

\* Vault.__get_file_dicts_tuple; the result's dicts are functions, the keys
\* of the third dict (whose values are NaN) are a set
get_file_dicts_tuple(linked_files, links_index, existing_file_relpaths, other_fpaths_not_wanted, cur_nonexistent_notes, md_index) ==
    LET shortest_names_existent ==
            AsFunction(get_shortest_path_by_filename(existing_file_relpaths))
        short_names_not_wanted_set ==
            DOMAIN shortest_names_existent \cup cur_nonexistent_notes \cup Keys(md_index)
        shortest_names_nonexistent ==
            {fn \in LinkedSet(links_index) :
                /\ fn \notin short_names_not_wanted_set
                /\ PathOf(fn) \notin Range(other_fpaths_not_wanted)}
        set_files_existent_linked == DOMAIN shortest_names_existent \cap linked_files
        set_files_existent_not_linked ==
            DOMAIN shortest_names_existent \ set_files_existent_linked
        set_files_nonexistent_linked == linked_files \cap shortest_names_nonexistent
    IN  [linked |-> [k \in set_files_existent_linked |-> shortest_names_existent[k]],
         non_linked |->
             [k \in set_files_existent_not_linked |-> shortest_names_existent[k]],
         nonexistent |->
             {k \in shortest_names_nonexistent : k \in set_files_nonexistent_linked}]

\* Vault._get_media_file_dicts_tuple
get_media_file_dicts_tuple(listing, embedded_ix, cur_nonexistent_notes, md_index) ==
    get_file_dicts_tuple(LinkedSet(embedded_ix), embedded_ix,
                         get_all_valid_media_file_relpaths(listing),
                         get_all_valid_canvas_file_relpaths(listing),
                         cur_nonexistent_notes, md_index)

\* Vault._get_canvas_file_dicts_tuple
get_canvas_file_dicts_tuple(listing, wikilinks_ix, cur_nonexistent_notes, md_index) ==
    get_file_dicts_tuple(LinkedSet(wikilinks_ix), wikilinks_ix,
                         get_all_valid_canvas_file_relpaths(listing),
                         get_all_valid_media_file_relpaths(listing),
                         cur_nonexistent_notes, md_index)

\* {**a, **b} for dicts held as functions
Merge(a, b) ==
    [k \in DOMAIN a \cup DOMAIN b |-> IF k \in DOMAIN b THEN b[k] ELSE a[k]]

\* _set_media_file_attrs without its `if not self._media_file_index` guard
set_media_file_attrs_every_time(listing, embedded_ix, cur_nonexistent_notes, md_index, cur_media_index) ==
    LET t == get_media_file_dicts_tuple(listing, embedded_ix,
                                        cur_nonexistent_notes, md_index)
    IN  [media_file_index |-> Merge(t.linked, t.non_linked),
         nonexistent |-> t.nonexistent,
         isolated |-> DOMAIN t.non_linked]

\* Vault._set_media_file_attrs: the new values of media_file_index,
\* nonexistent_media_files and isolated_media_files
set_media_file_attrs(listing, embedded_ix, cur_nonexistent_notes, md_index, cur_media_index) ==
    LET t == get_media_file_dicts_tuple(listing, embedded_ix,
                                        cur_nonexistent_notes, md_index)
    IN  [media_file_index |->
             IF DOMAIN cur_media_index = {} THEN Merge(t.linked, t.non_linked)
             ELSE cur_media_index,
         nonexistent |-> t.nonexistent,
         isolated |-> DOMAIN t.non_linked]

\* Vault._set_canvas_file_attrs: the new values of nonexistent_canvas_files
\* and isolated_canvas_files
set_canvas_file_attrs(listing, wikilinks_ix, cur_nonexistent_notes, md_index) ==
    LET t == get_canvas_file_dicts_tuple(listing, wikilinks_ix,
                                         cur_nonexistent_notes, md_index)
    IN  [nonexistent |-> t.nonexistent, isolated |-> DOMAIN t.non_linked]

\* Vault.__get_graph_data_dict: an ordered dict of <<note, targets>> pairs.
\* key_order lists the notes: the order of wikilinks_index by default, and
\* the iteration order of a Python set of the note names with attachments.
get_graph_data_dict(att, key_order, wikilinks_ix, embedded_ix, isolated_media, isolated_canvas) ==
    IF ~att
    THEN [i \in DOMAIN key_order |-> <<key_order[i], wikilinks_ix[key_order[i]]>>]
    ELSE LET d_out ==
                 [i \in DOMAIN key_order |->
                     <<key_order[i],
                       wikilinks_ix[key_order[i]] \o embedded_ix[key_order[i]]>>]
             iso == SetToSeq(isolated_media \cup isolated_canvas)
             isolated_files_dict == [i \in DOMAIN iso |-> <<iso[i], <<>> >>]
         IN  DictFromPairs(d_out \o isolated_files_dict)

NoneGraph == [is_none |-> TRUE, nodes |-> {}, edges |-> <<>>]

\* nx.MultiDiGraph(dict of lists): a node per key and per target, and one
\* edge per element of each list, in the order of the dict
MultiDiGraph(d) ==
    [is_none |-> FALSE,
     nodes |-> Keys(d) \cup UNION {Range(d[i][2]) : i \in DOMAIN d},
     edges |-> Flatten([i \in DOMAIN d |->
                           [j \in DOMAIN d[i][2] |-> <<d[i][1], d[i][2][j]>>]])]

\* graph.in_edges(n)
InEdges(g, n) == SelectSeq(g.edges, LAMBDA e : e[2] = n)

\* degree of n: in-edges plus out-edges
Degree(g, n) == Len(InEdges(g, n)) + Len(SelectSeq(g.edges, LAMBDA e : e[1] = n))

\* _get_backlinks_index listing each linking note once (graph.predecessors)
get_backlinks_index_predecessors(g) ==
    [n \in g.nodes |->
        LET ins == InEdges(g, n) IN DictFromKeys([i \in DOMAIN ins |-> ins[i][1]])]

\* Vault._get_backlinks_index
get_backlinks_index(g) ==
    [n \in g.nodes |-> LET ins == InEdges(g, n) IN [i \in DOMAIN ins |-> ins[i][1]]]

\* Vault._get_nonexistent_notes
get_nonexistent_notes(backlinks_ix, md_index, media_index, nonexistent_media, canvas_index) ==
    (((DOMAIN backlinks_ix \ Keys(md_index)) \ DOMAIN media_index)
        \ nonexistent_media) \ Keys(canvas_index)

\* Vault._get_isolated_notes
get_isolated_notes(g, md_index) ==
    {fn \in g.nodes : Degree(g, fn) = 0 /\ fn \in Keys(md_index)}

-----------------------------------------------------------------------------
(* The Vault: constructor, connect(), gather(), reset (api.py). *)

\* what a file holds, as far as the Vault reads it: the WIKILINK_REGEX
\* matches of its text, its markdown-link matches, its tags, its front matter
Content(links, md_links, tags, front_matter) ==
    [links |-> links, md_links |-> md_links, tags |-> tags,
     front_matter |-> front_matter]

\* a file without links, tags and front matter
EmptyContent == Content(<<>>, <<>>, <<>>, "none")

\* a file that open() fails on (removed since the Vault was built, or
\* without read permission)
Unreadable ==
    [links |-> <<>>, md_links |-> <<>>, tags |-> <<>>, front_matter |-> "none",
     open |-> "OSError"]

CanOpen(file) == "open" \notin DOMAIN file

\* The front matter block of a note is one of: "none" (no block), "fm" (valid
\* YAML), "scanner_error" and "parser_error" (invalid YAML), "template" (a
\* value {{...}}, which YAML reads as a mapping with an unhashable key) and
\* "unknown_tag" (a value with a tag the safe loader has no constructor for).
FrontMatterBlocks ==
    {"none", "fm", "scanner_error", "parser_error", "template", "unknown_tag"}

\* frontmatter.parse(file_string): the metadata and the content, or the
\* exception of the YAML loader; escaped says that "{" and "}" have been
\* replaced by "\{" and "\}" in the file string
frontmatter_parse(block, escaped) ==
    CASE block = "none" ->
             [kind |-> "ok", front_matter |-> "{}",
              content |-> IF escaped THEN "whole_escaped" ELSE "whole"]
      [] block = "fm" ->
             [kind |-> "ok", front_matter |-> "fm",
              content |-> IF escaped THEN "body_escaped" ELSE "body"]
      [] block = "scanner_error" ->
             [kind |-> "ScannerError", front_matter |-> "{}", content |-> "whole"]
      [] block = "parser_error" ->
             [kind |-> "ParserError", front_matter |-> "{}", content |-> "whole"]
      [] block = "template" ->
             IF escaped
             THEN [kind |-> "ok", front_matter |-> "fm_escaped",
                   content |-> "body_escaped"]
             ELSE [kind |-> "ConstructorError", front_matter |-> "{}",
                   content |-> "whole"]
      [] block = "unknown_tag" ->
             [kind |-> "ConstructorError", front_matter |-> "{}", content |-> "whole"]

\* _get_md_front_matter_and_content that gives a file it cannot open the
\* empty front matter instead of raising
get_md_front_matter_and_content_skipping(file) ==
    LET first == frontmatter_parse(file.front_matter, FALSE)
        fallback == [kind |-> "ok", front_matter |-> "{}", content |-> "whole"]
    IN  IF ~CanOpen(file) THEN fallback
        ELSE IF first.kind = "ok" THEN first
        ELSE IF first.kind \in {"ScannerError", "ParserError"} THEN fallback
        ELSE IF first.kind = "ConstructorError"
        THEN frontmatter_parse(file.front_matter, TRUE)
        ELSE fallback

\* md_utils._get_md_front_matter_and_content: open() is outside the try
\* block, and an exception of the parse in the ConstructorError handler is
\* handled by no other handler
get_md_front_matter_and_content(file) ==
    IF ~CanOpen(file)
    THEN [kind |-> file.open, front_matter |-> "{}", content |-> "whole"]
    ELSE LET first == frontmatter_parse(file.front_matter, FALSE)
             fallback == [kind |-> "ok", front_matter |-> "{}", content |-> "whole"]
         IN  IF first.kind = "ok" THEN first
             ELSE IF first.kind \in {"ScannerError", "ParserError"} THEN fallback
             ELSE IF first.kind = "ConstructorError"
             THEN frontmatter_parse(file.front_matter, TRUE)
             ELSE fallback

\* canvas_utils.get_canvas_content: the content, or the exception of open()
get_canvas_content(file) ==
    IF CanOpen(file) THEN [kind |-> "ok", content |-> file]
    ELSE [kind |-> file.open, content |-> file]

\* the JSON content of a canvas file: its nodes, each with an id and a type,
\* and its edges, each with a fromNode and a toNode
CanvasContent(nodes, edges) == [nodes |-> nodes, edges |-> edges]

\* canvas_content['nodes'] and canvas_content['edges']; a canvas file held
\* as EmptyContent is the canvas without nodes and edges
CanvasNodes(canvas_content) ==
    IF "nodes" \in DOMAIN canvas_content THEN canvas_content.nodes ELSE <<>>
CanvasEdges(canvas_content) ==
    IF "edges" \in DOMAIN canvas_content THEN canvas_content.edges ELSE <<>>

\* i.get('type') of a node or an edge of a canvas: None without the key
TypeOf(i) == IF "type" \in DOMAIN i THEN i.type ELSE "None"

\* canvas_utils.get_canvas_graph_detail: the graph G (add_nodes_from, then
\* add_edges_from, which adds the end points of an edge as nodes) and the
\* ids that pos has a position for
get_canvas_graph_detail(canvas_content) ==
    LET kept_nodes == SelectSeq(CanvasNodes(canvas_content),
                                LAMBDA i : TypeOf(i) # "group")
        nodes_list == [k \in DOMAIN kept_nodes |-> kept_nodes[k].id]
        kept_edges == SelectSeq(CanvasEdges(canvas_content),
                                LAMBDA i : TypeOf(i) # "group")
        graph_edges_list ==
            [k \in DOMAIN kept_edges |->
                <<kept_edges[k].fromNode, kept_edges[k].toNode>>]
    IN  [G |-> [nodes |-> Range(nodes_list)
                             \cup {e[1] : e \in Range(graph_edges_list)}
                             \cup {e[2] : e \in Range(graph_edges_list)},
                edges |-> graph_edges_list],
         pos |-> Range(nodes_list)]

\* the first file, in the order of the index, that the loop over the index
\* raises on, given the outcome of reading each file: its position and the
\* exception, position 0 when there is none
FirstRaise(outcomes) ==
    LET bad == {i \in DOMAIN outcomes : outcomes[i] # "ok"}
    IN  IF bad = {} THEN [at |-> 0, error |-> "none"]
        ELSE LET i == CHOOSE j \in bad : \A k \in bad : j <= k
             IN  [at |-> i, error |-> outcomes[i]]

\* what open() meets at the relpath p: the file of the directory, or no
\* file when it was removed since the file index was built
FileAt(p) == IF p \in DOMAIN fs THEN fs[p] ELSE Unreadable

\* the outcome of reading each note of md_file_index, in its order
NoteReads ==
    [i \in DOMAIN md_file_index |->
        get_md_front_matter_and_content(FileAt(md_file_index[i][2])).kind]

\* the outcome of reading each canvas file of canvas_file_index, in its order
CanvasReads ==
    [i \in DOMAIN canvas_file_index |->
        get_canvas_content(FileAt(canvas_file_index[i][2])).kind]

BoolStr(b) == IF b THEN "True" ELSE "False"

\* Vault._get_md_relpaths_by_name
get_md_relpaths_by_name(listing, include_subdirs, include_root) ==
    get_relpaths_by_name(
        get_relpaths_matching_subdirs(listing, ExtMd, include_subdirs, include_root),
        ExtMd)

\* Vault._get_canvas_relpaths_by_name
get_canvas_relpaths_by_name(listing, include_subdirs, include_root) ==
    get_relpaths_by_name(
        get_relpaths_matching_subdirs(listing, ExtCanvas, include_subdirs, include_root),
        ExtCanvas)

NoCall == [op |-> "none", arg |-> <<>>]

\* Vault.__init__ on the directory `files` (relpath -> content), listed by
\* the file system in the order `listing`
VaultInit(files, listing, include_subdirs, include_root) ==
    /\ fs = files
    /\ arg_include_subdirs = include_subdirs
    /\ arg_include_root = include_root
    /\ attachments = "None"
    /\ md_file_index = get_md_relpaths_by_name(listing, include_subdirs, include_root)
    /\ canvas_file_index =
           get_canvas_relpaths_by_name(listing, include_subdirs, include_root)
    /\ is_connected = FALSE
    /\ is_gathered = FALSE
    /\ graph = NoneGraph
    /\ backlinks_index = <<>>
    /\ wikilinks_index = <<>>
    /\ unique_wikilinks_index = <<>>
    /\ embedded_files_index = <<>>
    /\ md_links_index = <<>>
    /\ unique_md_links_index = <<>>
    /\ tags_index = <<>>
    /\ nonexistent_notes = {}
    /\ isolated_notes = {}
    /\ front_matter_index = <<>>
    /\ source_text_index = <<>>
    /\ readable_text_index = <<>>
    /\ media_file_index = <<>>
    /\ nonexistent_media_files = {}
    /\ isolated_media_files = {}
    /\ canvas_content_index = <<>>
    /\ nonexistent_canvas_files = {}
    /\ isolated_canvas_files = {}
    /\ call = NoCall
    /\ result = "none"

\* Vault.canvas_graph_detail_index: the loop of connect() over the canvas
\* files stores the content of a file and its graph detail under the same
\* key, so the index is held as a function of canvas_content_index
canvas_graph_detail_index ==
    [k \in DOMAIN canvas_content_index |->
        get_canvas_graph_detail(canvas_content_index[k])]

\* Vault._connect_update_based_on_new_relpath for the notes of the set
\* `notes`, read through the file index md_index: the entries that the loop
\* of connect() writes into the indexes
NoteIndexesOf(md_index, notes, show_nested_tags, att) ==
    LET content == [k \in notes |-> fs[Get(md_index, k)]]
        exclude_canvas == ~att
    IN  [md_links |->
             [k \in notes |-> get_md_links_from_source_text(content[k].md_links)],
         unique_md_links |->
             [k \in notes |->
                 get_unique_md_links_from_source_text(content[k].md_links)],
         embedded_files |->
             [k \in notes |->
                 get_all_embedded_files_from_source_text(content[k].links, TRUE)],
         wikilinks |->
             [k \in notes |->
                 get_all_wikilinks_from_source_text(
                     content[k].links, TRUE, exclude_canvas)],
         unique_wikilinks |->
             [k \in notes |->
                 get_unique_wikilinks_from_source_text(
                     content[k].links, TRUE, exclude_canvas)],
         front_matter |->
             [k \in notes |-> get_md_front_matter_and_content(content[k]).front_matter],
         tags |-> [k \in notes |-> get_tags(content[k].tags, show_nested_tags)]]

\* the same for the Vault's own md_file_index
NoteIndexes(notes, show_nested_tags, att) ==
    NoteIndexesOf(md_file_index, notes, show_nested_tags, att)

\* What Vault.connect computes when every file is read: the loop over the
\* notes of md_index, the canvas loop over canvas_index, both passes of
\* _set_canvas_file_attrs and _set_media_file_attrs, and
\* _set_graph_related_attributes.  listing is the order in which the file
\* system lists the directory, key_order the order in which the notes enter
\* the graph, cur_nonexistent_notes and cur_media_index the values that
\* nonexistent_notes and media_file_index have when connect() starts.
ConnectOutcome(md_index, canvas_index, listing, key_order, show_nested_tags, att, cur_nonexistent_notes, cur_media_index) ==
    LET ix == NoteIndexesOf(md_index, Keys(md_index), show_nested_tags, att)
        wl == ix.wikilinks
        emb == ix.embedded_files
        c1 == set_canvas_file_attrs(listing, wl, cur_nonexistent_notes, md_index)
        m1 == set_media_file_attrs(listing, emb, cur_nonexistent_notes,
                                   md_index, cur_media_index)
        G == MultiDiGraph(get_graph_data_dict(
                 att, key_order, wl, emb, m1.isolated, c1.isolated))
        bl == get_backlinks_index(G)
        nn == get_nonexistent_notes(bl, md_index, m1.media_file_index,
                                    m1.nonexistent, canvas_index)
        c2 == set_canvas_file_attrs(listing, wl, nn, md_index)
        m2 == set_media_file_attrs(listing, emb, nn, md_index,
                                   m1.media_file_index)
    IN  [indexes |-> ix,
         canvas_content_index |->
             [k \in Keys(canvas_index) |->
                 get_canvas_content(fs[Get(canvas_index, k)]).content],
         graph |-> G,
         backlinks_index |-> bl,
         nonexistent_notes |-> nn,
         isolated_notes |-> get_isolated_notes(G, md_index),
         nonexistent_canvas_files |-> c2.nonexistent,
         isolated_canvas_files |-> c2.isolated,
         media_file_index |-> m2.media_file_index,
         nonexistent_media_files |-> m2.nonexistent,
         isolated_media_files |-> m2.isolated]

\* Vault.connect when every file of the indexes is read: the attributes take
\* the values computed from the Vault's file indexes
ConnectBuild(show_nested_tags, att) ==
    \E key_order \in
            (IF att THEN Orders(Keys(md_file_index))
             ELSE {KeySeq(md_file_index)}) :
    \E o \in {ConnectOutcome(md_file_index, canvas_file_index,
                               SetToSeq(DOMAIN fs), key_order, show_nested_tags,
                               att, nonexistent_notes, media_file_index)} :
        /\ attachments' = BoolStr(att)
        /\ md_links_index' = o.indexes.md_links
        /\ unique_md_links_index' = o.indexes.unique_md_links
        /\ embedded_files_index' = o.indexes.embedded_files
        /\ wikilinks_index' = o.indexes.wikilinks
        /\ unique_wikilinks_index' = o.indexes.unique_wikilinks
        /\ front_matter_index' = o.indexes.front_matter
        /\ tags_index' = o.indexes.tags
        /\ canvas_content_index' = o.canvas_content_index
        /\ graph' = o.graph
        /\ backlinks_index' = o.backlinks_index
        /\ nonexistent_notes' = o.nonexistent_notes
        /\ isolated_notes' = o.isolated_notes
        /\ nonexistent_canvas_files' = o.nonexistent_canvas_files
        /\ isolated_canvas_files' = o.isolated_canvas_files
        /\ media_file_index' = o.media_file_index
        /\ nonexistent_media_files' = o.nonexistent_media_files
        /\ isolated_media_files' = o.isolated_media_files
        /\ is_connected' = TRUE

\* Vault.connect when reading a file raises: the indexes have been emptied
\* and hold the notes read before the raise; the exception leaves connect()
\* before the graph is built and before is_connected is set
ConnectRaised(show_nested_tags, att, in_notes, in_canvas) ==
    LET read_notes ==
            IF in_notes.at > 0
            THEN {md_file_index[i][1] : i \in 1..(in_notes.at - 1)}
            ELSE Keys(md_file_index)
        ix == NoteIndexes(read_notes, show_nested_tags, att)
    IN  /\ attachments' = BoolStr(att)
        /\ md_links_index' = ix.md_links
        /\ unique_md_links_index' = ix.unique_md_links
        /\ embedded_files_index' = ix.embedded_files
        /\ wikilinks_index' = ix.wikilinks
        /\ unique_wikilinks_index' = ix.unique_wikilinks
        /\ front_matter_index' = ix.front_matter
        /\ tags_index' = ix.tags
        /\ canvas_content_index' =
               IF in_notes.at > 0 THEN canvas_content_index
               ELSE [k \in {canvas_file_index[i][1] : i \in 1..(in_canvas.at - 1)} |->
                        get_canvas_content(fs[Get(canvas_file_index, k)]).content]
        /\ UNCHANGED <<graph, backlinks_index, nonexistent_notes, isolated_notes,
                       nonexistent_canvas_files, isolated_canvas_files,
                       media_file_index, nonexistent_media_files,
                       isolated_media_files, is_connected>>

\* the body of Vault.connect under `if not self._is_connected`; the outcome
\* of the call is "ok" or the exception that a file read raised
ConnectBody(show_nested_tags, att) ==
    LET in_notes == FirstRaise(NoteReads)
        in_canvas == FirstRaise(CanvasReads)
    IN  IF in_notes.at = 0 /\ in_canvas.at = 0
        THEN result' = "ok" /\ ConnectBuild(show_nested_tags, att)
        ELSE /\ result' = IF in_notes.at > 0 THEN in_notes.error ELSE in_canvas.error
             /\ ConnectRaised(show_nested_tags, att, in_notes, in_canvas)

\* connect() without its `if not self._is_connected` guard
ConnectAlways(show_nested_tags, att) ==
    /\ call' = [op |-> "connect", arg |-> <<BoolStr(att)>>]
    /\ UNCHANGED <<inputVars, md_file_index, canvas_file_index, gatherVars>>
    /\ ConnectBody(show_nested_tags, att)

\* Vault.connect
Connect(show_nested_tags, att) ==
    /\ call' = [op |-> "connect", arg |-> <<BoolStr(att)>>]
    /\ UNCHANGED <<inputVars, md_file_index, canvas_file_index, gatherVars>>
    /\ IF is_connected
       THEN result' = "ok" /\ UNCHANGED connectVars
       ELSE ConnectBody(show_nested_tags, att)

\* gather() with the precondition of the link accessors: it raises on a
\* Vault that is not connected
GatherAfterConnect(tags) ==
    /\ call' = [op |-> "gather", arg |-> <<tags>>]
    /\ result' = IF is_connected THEN "ok" ELSE "AttributeError"
    /\ source_text_index' =
           IF is_connected
           THEN [k \in Keys(md_file_index) |->
                    <<get_md_front_matter_and_content(fs[Get(md_file_index, k)]).content,
                      fs[Get(md_file_index, k)].links>>]
           ELSE source_text_index
    /\ readable_text_index' =
           IF is_connected
           THEN [k \in Keys(md_file_index) |->
                    <<get_md_front_matter_and_content(fs[Get(md_file_index, k)]).content,
                      fs[Get(md_file_index, k)].links, tags>>]
           ELSE readable_text_index
    /\ is_gathered' = (is_gathered \/ is_connected)
    /\ UNCHANGED <<inputVars, md_file_index, canvas_file_index, connectVars>>

\* Vault.gather with Vault._gather_update_based_on_new_relpath; the text of
\* a note is held as the kind of content that the front matter parse gives
\* and the note's link matches, tags says which HTML tags keep their
\* formatting in the readable text.  When reading a note raises, the notes
\* read before it have their texts stored and is_gathered is not set.
Gather(tags) ==
    LET raised == FirstRaise(NoteReads)
        read_notes ==
            IF raised.at > 0
            THEN {md_file_index[i][1] : i \in 1..(raised.at - 1)}
            ELSE Keys(md_file_index)
        content(k) == get_md_front_matter_and_content(fs[Get(md_file_index, k)]).content
    IN  /\ call' = [op |-> "gather", arg |-> <<tags>>]
        /\ result' = IF raised.at > 0 THEN raised.error ELSE "ok"
        /\ source_text_index' =
               Merge(source_text_index,
                     [k \in read_notes |->
                         <<content(k), fs[Get(md_file_index, k)].links>>])
        /\ readable_text_index' =
               Merge(readable_text_index,
                     [k \in read_notes |->
                         <<content(k), fs[Get(md_file_index, k)].links, tags>>])
        /\ is_gathered' = IF raised.at > 0 THEN is_gathered ELSE TRUE
        /\ UNCHANGED <<inputVars, md_file_index, canvas_file_index, connectVars>>

\* Vault.is_connected setter, used to reset the vault: vault.is_connected = False
Reset ==
    /\ is_connected' = FALSE
    /\ call' = [op |-> "reset", arg |-> <<>>]
    /\ result' = "ok"
    /\ UNCHANGED <<inputVars, md_file_index, canvas_file_index, gatherVars,
                   attachments, graph, backlinks_index, wikilinks_index,
                   unique_wikilinks_index, embedded_files_index, md_links_index,
                   unique_md_links_index, tags_index, front_matter_index,
                   nonexistent_notes, isolated_notes, nonexistent_media_files,
                   isolated_media_files, nonexistent_canvas_files,
                   isolated_canvas_files, canvas_content_index, media_file_index>>

-----------------------------------------------------------------------------
(* The accessors for one note (api.py).  An accessor either raises or      *)
(* returns a value; it never changes the Vault.                            *)

Raise(kind) == [kind |-> kind, value |-> <<>>]
Ok(v) == [kind |-> "ok", value |-> v]

\* a tally that records each distinct element once
CounterOfDistinct(xs) == [x \in Range(xs) |-> 1]

\* dict(Counter(xs))
Counter(xs) == [x \in Range(xs) |-> Count(xs, x)]

\* get_backlinks looking the name up among the notes instead of the graph
get_backlinks_md_only(note_name) ==
    IF ~is_connected THEN Raise("AttributeError")
    ELSE IF note_name \notin Keys(md_file_index) THEN Raise("ValueError")
    ELSE Ok(backlinks_index[note_name])

\* Vault.get_backlinks
get_backlinks(note_name) ==
    IF ~is_connected THEN Raise("AttributeError")
    ELSE IF note_name \notin graph.nodes THEN Raise("ValueError")
    ELSE Ok(backlinks_index[note_name])

\* Vault.get_backlink_counts
get_backlink_counts(note_name) ==
    IF ~is_connected THEN Raise("AttributeError")
    ELSE IF note_name \notin graph.nodes THEN Raise("ValueError")
    ELSE LET backlinks == get_backlinks(note_name)
         IN  IF backlinks.kind # "ok" THEN backlinks ELSE Ok(Counter(backlinks.value))

\* get_wikilinks with its two checks in the other order
get_wikilinks_name_first(file_name) ==
    IF file_name \notin Keys(md_file_index) THEN Raise("ValueError")
    ELSE IF ~is_connected THEN Raise("AttributeError")
    ELSE Ok(wikilinks_index[file_name])

\* Vault.get_wikilinks
get_wikilinks(file_name) ==
    IF ~is_connected THEN Raise("AttributeError")
    ELSE IF file_name \notin Keys(md_file_index) THEN Raise("ValueError")
    ELSE Ok(wikilinks_index[file_name])

\* Vault.get_wikilink_counts
get_wikilink_counts(note_name) ==
    IF ~is_connected THEN Raise("AttributeError")
    ELSE IF note_name \notin graph.nodes THEN Raise("ValueError")
    ELSE LET wikilinks == get_wikilinks(note_name)
         IN  IF wikilinks.kind # "ok" THEN wikilinks ELSE Ok(Counter(wikilinks.value))

\* Vault.get_embedded_files
get_embedded_files(file_name) ==
    IF ~is_connected THEN Raise("AttributeError")
    ELSE IF file_name \notin Keys(md_file_index) THEN Raise("ValueError")
    ELSE Ok(embedded_files_index[file_name])

\* Vault.get_md_links
get_md_links(file_name) ==
    IF ~is_connected THEN Raise("AttributeError")
    ELSE IF file_name \notin Keys(md_file_index) THEN Raise("ValueError")
    ELSE Ok(md_links_index[file_name])

\* Vault.get_front_matter
get_front_matter(file_name) ==
    IF ~is_connected THEN Raise("AttributeError")
    ELSE IF file_name \notin Keys(md_file_index) THEN Raise("ValueError")
    ELSE Ok(front_matter_index[file_name])

\* Vault.get_tags
vault_get_tags(file_name) ==
    IF ~is_connected THEN Raise("AttributeError")
    ELSE IF file_name \notin Keys(md_file_index) THEN Raise("ValueError")
    ELSE Ok(tags_index[file_name])

\* get_source_text with its two checks in the other order
get_source_text_name_first(file_name) ==
    IF file_name \notin Keys(md_file_index) THEN Raise("ValueError")
    ELSE IF ~is_gathered THEN Raise("AttributeError")
    ELSE Ok(source_text_index[file_name])

\* Vault.get_source_text
get_source_text(file_name) ==
    IF ~is_gathered THEN Raise("AttributeError")
    ELSE IF file_name \notin Keys(md_file_index) THEN Raise("ValueError")
    ELSE Ok(source_text_index[file_name])

\* Vault.get_readable_text
get_readable_text(file_name) ==
    IF ~is_gathered THEN Raise("AttributeError")
    ELSE IF file_name \notin Keys(md_file_index) THEN Raise("ValueError")
    ELSE Ok(readable_text_index[file_name])

\* a cell of a pandas column: a number, or NaN
Num(n) == <<n>>
NaN == <<>>

\* Vault.get_note_metadata with _create_note_metadata_columns: the table as
\* a function from its index (the 'note' axis) to the row's columns
get_note_metadata ==
    IF ~is_connected THEN Raise("AttributeError")
    ELSE LET ix_list ==
                 ((DOMAIN backlinks_index \ DOMAIN media_file_index)
                     \ nonexistent_media_files) \ Keys(canvas_file_index)
             note_exists(f) == f \in Keys(md_file_index)
             len_get(index, f) == IF f \in DOMAIN index THEN Len(index[f]) ELSE 0
         IN  Ok([f \in ix_list |->
                    [note_exists |-> note_exists(f),
                     n_backlinks |-> Num(Len(get_backlinks(f).value)),
                     n_wikilinks |->
                         IF note_exists(f) THEN Num(len_get(wikilinks_index, f))
                         ELSE NaN,
                     n_tags |->
                         IF note_exists(f) THEN Num(len_get(tags_index, f)) ELSE NaN,
                     n_embedded_files |->
                         IF note_exists(f) THEN Num(len_get(embedded_files_index, f))
                         ELSE NaN]])

\* dict(Counter(list(chain(*index.values())))) for an index note -> list
ChainCounter(index) ==
    [x \in LinkedSet(index) |-> SumFn([n \in DOMAIN index |-> Count(index[n], x)])]

\* Vault._get_backlink_counts_for_media_files_only
get_backlink_counts_for_media_files_only ==
    Merge([k \in DOMAIN media_file_index |-> 0], ChainCounter(embedded_files_index))

\* Vault._get_backlink_counts_for_canvas_files_only
get_backlink_counts_for_canvas_files_only ==
    IF attachments # "True" THEN Raise("AttributeError")
    ELSE Ok(Merge([k \in Keys(canvas_file_index) |-> 0],
                  ChainCounter(wikilinks_index)))

\* df[col] = a dict: the cell of row f is the dict's value for f, NaN when
\* the dict has no such key
CellOf(d, f) == IF f \in DOMAIN d THEN Num(d[f]) ELSE NaN

\* a row of a table on attachments; the link counts of the notes' table are
\* columns that stay empty
AttachmentRow(f, exists, n_backlinks) ==
    [file |-> f, file_exists |-> exists, n_backlinks |-> n_backlinks,
     n_wikilinks |-> NaN, n_tags |-> NaN, n_embedded_files |-> NaN,
     graph_category |-> IF exists THEN "attachment" ELSE "nonexistent"]

\* Vault.get_media_file_metadata with _create_media_file_metadata_columns:
\* the table as the list of its rows, the keys of media_file_index first
get_media_file_metadata ==
    LET ix_list == SetToSeq(DOMAIN media_file_index) \o SetToSeq(nonexistent_media_files)
        counts == get_backlink_counts_for_media_files_only
    IN  [i \in DOMAIN ix_list |->
            AttachmentRow(ix_list[i], ix_list[i] \notin nonexistent_media_files,
                          CellOf(counts, ix_list[i]))]

\* Vault.get_canvas_file_metadata with _create_canvas_file_metadata_columns
get_canvas_file_metadata ==
    LET ix_list == KeySeq(canvas_file_index) \o SetToSeq(nonexistent_canvas_files)
        counts == get_backlink_counts_for_canvas_files_only
    IN  [i \in DOMAIN ix_list |->
            AttachmentRow(ix_list[i], ix_list[i] \notin nonexistent_canvas_files,
                          IF attachments = "True"
                          THEN CellOf(counts.value, ix_list[i]) ELSE NaN)]

\* Vault.get_all_file_metadata: the rows of the notes' table, followed with
\* attachments=True by the rows of the media and the canvas tables
get_all_file_metadata ==
    LET notes == get_note_metadata
    IN  IF notes.kind # "ok" THEN notes
        ELSE LET ix_list == SetToSeq(DOMAIN notes.value)
                 df == [i \in DOMAIN ix_list |->
                           LET row == notes.value[ix_list[i]]
                           IN  [file |-> ix_list[i],
                                file_exists |-> row.note_exists,
                                n_backlinks |-> row.n_backlinks,
                                n_wikilinks |-> row.n_wikilinks,
                                n_tags |-> row.n_tags,
                                n_embedded_files |-> row.n_embedded_files,
                                graph_category |->
                                    IF row.note_exists THEN "note"
                                    ELSE "nonexistent"]]
             IN  IF attachments # "True" THEN Ok(df)
                 ELSE Ok(df \o get_media_file_metadata \o get_canvas_file_metadata)

\* pandas Series.sum() of a column of the table: NaN cells are skipped
ColumnSum(df, col) ==
    SumFn([r \in DOMAIN df |-> IF df[r][col] = NaN THEN 0 ELSE df[r][col][1]])

\* a call of an accessor: the call and the kind of its outcome are recorded
Called(op, name, outcome) ==
    /\ call' = [op |-> op, arg |-> name]
    /\ result' = outcome.kind
    /\ UNCHANGED <<inputVars, vaultVars>>

GetBacklinks(n) == Called("get_backlinks", n, get_backlinks(n))
GetBacklinkCounts(n) == Called("get_backlink_counts", n, get_backlink_counts(n))
GetWikilinks(n) == Called("get_wikilinks", n, get_wikilinks(n))
GetWikilinkCounts(n) == Called("get_wikilink_counts", n, get_wikilink_counts(n))
GetEmbeddedFiles(n) == Called("get_embedded_files", n, get_embedded_files(n))
GetMdLinks(n) == Called("get_md_links", n, get_md_links(n))
GetFrontMatter(n) == Called("get_front_matter", n, get_front_matter(n))
GetTags(n) == Called("get_tags", n, vault_get_tags(n))
GetSourceText(n) == Called("get_source_text", n, get_source_text(n))
GetReadableText(n) == Called("get_readable_text", n, get_readable_text(n))

\* the calls of the accessors that return a table on the whole vault
GetNoteMetadata == Called("get_note_metadata", <<>>, get_note_metadata)
GetMediaFileMetadata == Called("get_media_file_metadata", <<>>, Ok(get_media_file_metadata))
GetCanvasFileMetadata == Called("get_canvas_file_metadata", <<>>, Ok(get_canvas_file_metadata))
GetAllFileMetadata == Called("get_all_file_metadata", <<>>, get_all_file_metadata)

-----------------------------------------------------------------------------
(* The vault directories the model is run on. *)

\* notes, a canvas and an image, at the root and in the subdirectory X
FileA == <<"A", ".md">>
FileB == <<"B", ".md">>
FileXA == <<"X", "/", "A", ".md">>
FileC == <<"C", ".canvas">>
FileXC == <<"X", "/", "C", ".canvas">>
FileP == <<"p", ".png">>
FileXP == <<"X", "/", "p", ".png">>
\* a note whose name is the name of an image: p.png.md
FilePN == <<"p", ".png", ".md">>

\* [[A|a]], [[B]], [[Z#h]], ![[Z]], [[p.png]], ![[p.png|100]], [[C.canvas]]
LinkA == <<"", <<"A", "|", "a">> >>
LinkB == <<"", <<"B">> >>
LinkZ == <<"", <<"Z", "#", "h">> >>
EmbedZ == <<"!", <<"Z">> >>
LinkP == <<"", <<"p", ".png">> >>
EmbedP == <<"!", <<"p", ".png", "|", "100">> >>
LinkC == <<"", <<"C", ".canvas">> >>

\* the names the accessors are asked about: notes, a placeholder, a media
\* file, and a name that occurs nowhere
QueryNames == {<<"A">>, <<"Z">>, <<"p", ".png">>, <<"Q">>}

\* a note with a nested tag, a repeated markdown link and front matter
NoteContent(links) ==
    Content(links, << <<"txt", "u">>, <<"txt", "w">>, <<"txt", "u">> >>,
            << <<"t", "t/s">> >>, "fm")

BodiesA == {<<>>, <<LinkZ>>, <<LinkB, LinkZ, LinkB>>, <<EmbedP, LinkZ>>}
BodyB == <<LinkA>>

\* Vault(dirpath) on a directory with A.md and possibly B.md and p.png
Init ==
    \E bodyA \in BodiesA, others \in SUBSET {FileB, FileP} :
        LET files ==
                [p \in {FileA} \cup others |->
                    IF p = FileA THEN NoteContent(bodyA)
                    ELSE IF p = FileB THEN NoteContent(BodyB)
                    ELSE EmptyContent]
        IN  VaultInit(files, SetToSeq(DOMAIN files), NoneList, TRUE)

Next ==
    \/ \E show_nested_tags \in BOOLEAN, att \in BOOLEAN : Connect(show_nested_tags, att)
    \/ Gather("None")
    \/ Reset
    \/ \E n \in QueryNames : GetBacklinks(n)
    \/ \E n \in QueryNames : GetBacklinkCounts(n)
    \/ \E n \in QueryNames : GetWikilinks(n)
    \/ \E n \in QueryNames : GetWikilinkCounts(n)
    \/ \E n \in QueryNames : GetEmbeddedFiles(n)
    \/ \E n \in QueryNames : GetMdLinks(n)
    \/ \E n \in QueryNames : GetFrontMatter(n)
    \/ \E n \in QueryNames : GetTags(n)
    \/ \E n \in QueryNames : GetSourceText(n)
    \/ \E n \in QueryNames : GetReadableText(n)

Spec == Init /\ [][Next]_vars

\* A wider family of directories, for the properties of what connect()
\* builds: up to MaxFiles files, up to MaxLinks links, any subdirectory filter
MdFilesU == {FileA, FileXA, FilePN}
OtherFilesU == {FileC, FileXC, FileP, FileXP}
TokensU == {LinkA, LinkZ, EmbedZ, LinkP, EmbedP, LinkC}

BodySeqs == UNION {[1..k -> TokensU] : k \in 0..MaxLinks}

Reverse(s) == [i \in DOMAIN s |-> s[Len(s) + 1 - i]]

TotalLen(b) == SumFn([p \in DOMAIN b |-> Len(b[p])])

InitVaults ==
    \E present \in {F \in SUBSET (MdFilesU \cup OtherFilesU) : Cardinality(F) <= MaxFiles} :
    \E bodies \in {b \in [present \cap MdFilesU -> BodySeqs] : TotalLen(b) <= MaxLinks} :
    \E listing \in {SetToSeq(present), Reverse(SetToSeq(present))} :
    \E include_subdirs \in {NoneList, ListOf(<< <<"X">> >>)}, include_root \in BOOLEAN :
        VaultInit([p \in present |->
                      IF p \in MdFilesU THEN Content(bodies[p], <<>>, <<>>, "fm")
                      ELSE EmptyContent],
                  listing, include_subdirs, include_root)

NextVaults == \E att \in BOOLEAN : Connect(FALSE, att)

SpecVaults == InitVaults /\ [][NextVaults]_vars

\* Directories with a deeper tree, for the include_subdirs filter: notes at
\* the root, in X, in X/Y and in Y, a canvas in X; the allow-lists include
\* None, the empty list, a path with a slash at its end, and "."
FileXYA == <<"X", "/", "Y", "/", "A", ".md">>
FileYB == <<"Y", "/", "B", ".md">>
DirFilesU == {FileA, FileXA, FileXYA, FileYB, FileXC}

AllowListsU ==
    {NoneList, ListOf(<<>>), ListOf(<< <<"X">> >>), ListOf(<< <<"X", "/">> >>),
     ListOf(<< <<"X", "/", "Y">> >>), ListOf(<< <<"X">>, <<"Y">> >>),
     ListOf(<< <<".">> >>)}

InitDirs ==
    \E present \in {F \in SUBSET DirFilesU : Cardinality(F) <= MaxFiles} :
    \E include_subdirs \in AllowListsU, include_root \in BOOLEAN :
        VaultInit([p \in present |-> EmptyContent], SetToSeq(present),
                  include_subdirs, include_root)

NextDirs == \E att \in BOOLEAN : Connect(FALSE, att)

SpecDirs == InitDirs /\ [][NextDirs]_vars

\* Notes with one link of any text, for the normalisation of link targets:
\* the note A.md holds [[text]] or ![[text]], the text being up to MaxText
\* atoms among a name, "|", "#", a backslash, a space and ".md"
TextAtoms == {"A", "|", "#", "\\", " ", ".md"}
LinkTexts == UNION {[1..k -> TextAtoms] : k \in 1..MaxText}

InitLinks ==
    \E text \in LinkTexts, bang \in {"", "!"} :
        VaultInit([p \in {FileA} |-> Content(<< <<bang, text>> >>, <<>>, <<>>, "fm")],
                  <<FileA>>, NoneList, TRUE)

NextLinks == \E att \in BOOLEAN : Connect(FALSE, att)

SpecLinks == InitLinks /\ [][NextLinks]_vars

\* Directories whose files may fail to be read: the notes A.md and B.md with
\* any front matter block, the canvas C.canvas; a file may be unreadable from
\* the start or become unreadable after the Vault was built
NoteFiles(p) ==
    {Content(IF p = FileA THEN <<LinkB>> ELSE <<LinkA>>, <<>>, <<>>, block) :
        block \in IF p = FileA THEN FrontMatterBlocks ELSE {"fm", "template"}}
        \cup {Unreadable}

InitReads ==
    \E present \in (SUBSET {FileA, FileB, FileC}) \ {{}} :
    \E files \in [present -> UNION {NoteFiles(p) : p \in present}
                                 \cup {EmptyContent}] :
    \E listing \in {SetToSeq(present), Reverse(SetToSeq(present))} :
        /\ Cardinality(present) <= MaxFiles
        /\ \A p \in present :
               files[p] \in (IF p = FileC THEN {EmptyContent, Unreadable}
                             ELSE NoteFiles(p))
        /\ VaultInit(files, listing, NoneList, TRUE)

\* the file p can no longer be opened (it lost its read permission)
BecomesUnreadable(p) ==
    /\ CanOpen(fs[p])
    /\ fs' = [fs EXCEPT ![p] = Unreadable]
    /\ UNCHANGED <<arg_include_subdirs, arg_include_root, vaultVars, call, result>>

NextReads ==
    \/ \E att \in BOOLEAN : Connect(FALSE, att)
    \/ Gather("None")
    \/ Reset
    \/ \E p \in DOMAIN fs : BecomesUnreadable(p)
    \/ GetWikilinks(<<"A">>)
    \/ GetFrontMatter(<<"A">>)

SpecReads == InitReads /\ [][NextReads]_vars

\* Directories listed in either order, for the effect of the order in which
\* connect() meets the files: notes with the same name at the root and in X,
\* images with the same name, a canvas; connect() is run once
MdFilesO == {FileA, FileXA, FilePN}
OtherFilesO == {FileP, FileXP, FileC}
TokensO == {LinkA, LinkZ, LinkP, EmbedP, LinkC}

InitOrders ==
    \E present \in {F \in SUBSET (MdFilesO \cup OtherFilesO) : Cardinality(F) <= MaxFiles} :
    \E bodies \in {b \in [present \cap MdFilesO ->
                             UNION {[1..k -> TokensO] : k \in 0..MaxLinks}] :
                      TotalLen(b) <= MaxLinks} :
    \E listing \in {SetToSeq(present), Reverse(SetToSeq(present))} :
        VaultInit([p \in present |->
                      IF p \in MdFilesO THEN Content(bodies[p], <<>>, <<>>, "fm")
                      ELSE EmptyContent],
                  listing, NoneList, TRUE)

NextOrders == \E att \in BOOLEAN : Connect(FALSE, att)

SpecOrders == InitOrders /\ [][NextOrders]_vars

\* Directories that change after the Vault was built: files are added and
\* removed between the calls; what a file holds is fixed by its path
ChangeFilesU == {FileA, FileB, FileP, FileXP, FileC}

ContentAt(p) ==
    IF p = FileA THEN Content(<<LinkB, EmbedP>>, <<>>, <<>>, "fm")
    ELSE IF p = FileB THEN Content(<<LinkA, LinkC>>, <<>>, <<>>, "fm")
    ELSE EmptyContent

InitChanges ==
    \E present \in {F \in SUBSET ChangeFilesU : Cardinality(F) <= MaxFiles} :
        VaultInit([p \in present |-> ContentAt(p)], SetToSeq(present), NoneList, TRUE)

\* a file is created in the directory
AddFile(p) ==
    /\ p \notin DOMAIN fs
    /\ Cardinality(DOMAIN fs) < MaxFiles
    /\ fs' = [q \in DOMAIN fs \cup {p} |-> ContentAt(q)]
    /\ UNCHANGED <<arg_include_subdirs, arg_include_root, vaultVars, call, result>>

\* a file is deleted from the directory
RemoveFile(p) ==
    /\ p \in DOMAIN fs
    /\ fs' = [q \in DOMAIN fs \ {p} |-> fs[q]]
    /\ UNCHANGED <<arg_include_subdirs, arg_include_root, vaultVars, call, result>>

NextChanges ==
    \/ \E att \in BOOLEAN : Connect(FALSE, att)
    \/ Reset
    \/ \E p \in ChangeFilesU : AddFile(p)
    \/ \E p \in ChangeFilesU : RemoveFile(p)

SpecChanges == InitChanges /\ [][NextChanges]_vars

\* Directories with a note, a canvas and an image, for the tables on the
\* whole vault: A.md links to the canvas, embeds the image, or has no link
BodiesT == {<<>>, <<LinkC>>, <<EmbedP>>, <<LinkZ, EmbedZ>>}

InitTables ==
    \E present \in SUBSET {FileA, FileC, FileP}, bodyA \in BodiesT :
        VaultInit([p \in present |->
                      IF p = FileA THEN Content(bodyA, <<>>, <<>>, "fm")
                      ELSE EmptyContent],
                  SetToSeq(present), NoneList, TRUE)

NextTables ==
    \/ \E att \in BOOLEAN : Connect(FALSE, att)
    \/ Reset
    \/ GetNoteMetadata
    \/ GetMediaFileMetadata
    \/ GetCanvasFileMetadata
    \/ GetAllFileMetadata

SpecTables == InitTables /\ [][NextTables]_vars

\* Directories with one canvas file, for the graph of a canvas: the canvas
\* has some of a group node, a text node and a file node, and up to MaxLinks
\* edges between its nodes
CanvasNodesU ==
    {[id |-> "g", type |-> "group"], [id |-> "t", type |-> "text"],
     [id |-> "f", type |-> "file"]}

InitCanvas ==
    \E nodes \in SUBSET CanvasNodesU :
    \E edges \in UNION {[1..k -> [fromNode : {i.id : i \in nodes},
                                  toNode : {i.id : i \in nodes}]] :
                           k \in 0..MaxLinks} :
    \E others \in SUBSET {FileA} :
        VaultInit([p \in {FileC} \cup others |->
                      IF p = FileC THEN CanvasContent(SetToSeq(nodes), edges)
                      ELSE Content(<<LinkC>>, <<>>, <<>>, "fm")],
                  SetToSeq({FileC} \cup others), NoneList, TRUE)

NextCanvas ==
    \/ \E att \in BOOLEAN : Connect(FALSE, att)
    \/ Reset

SpecCanvas == InitCanvas /\ [][NextCanvas]_vars

-----------------------------------------------------------------------------
(* Properties. *)

NameA == <<"A">>
NameZ == <<"Z">>
NameXA == <<"X", "/", "A">>
NameP == <<"p", ".png">>

\* the accessors that need connect()
ConnectAccessors ==
    {"get_backlinks", "get_backlink_counts", "get_wikilinks", "get_wikilink_counts",
     "get_embedded_files", "get_md_links", "get_front_matter", "get_tags"}

\* C1: on a connected Vault, connect() with any arguments changes nothing of
\* the Vault: graph, indexes, nonexistent/isolated lists, attachments and
\* is_connected keep their values.
C1_ConnectOnConnectedIsNoOp ==
    [][\A show_nested_tags, att \in BOOLEAN :
          (is_connected /\ Connect(show_nested_tags, att)) => UNCHANGED vaultVars]_vars

\* connect(attachments=x) was called on a Vault connected with the other value
C1_Witness ==
    /\ is_connected
    /\ call.op = "connect"
    /\ call.arg # <<attachments>>

\* C2: while the Vault is not connected, each of the eight accessors raises
\* AttributeError for every name (never ValueError) and changes nothing.
C2_UnconnectedAccessorsRaiseAttributeError ==
    [][(~is_connected /\ call'.op \in ConnectAccessors)
          => (result' = "AttributeError" /\ UNCHANGED <<inputVars, vaultVars>>)]_vars

\* get_wikilinks was asked for a key of md_file_index before connect()
C2_Witness ==
    /\ ~is_connected
    /\ call = [op |-> "get_wikilinks", arg |-> NameA]
    /\ NameA \in Keys(md_file_index)
    /\ result = "AttributeError"

FoundMd ==
    Range(get_relpaths_matching_subdirs(
              SetToSeq(DOMAIN fs), ExtMd, arg_include_subdirs, arg_include_root))
FoundCanvas ==
    Range(get_relpaths_matching_subdirs(
              SetToSeq(DOMAIN fs), ExtCanvas, arg_include_subdirs, arg_include_root))
FoundMedia == {p \in DOMAIN fs : PathSuffix(p) \in MEDIA_EXT_SET}

StrOf(p) == p

\* index (key -> relpath) has one entry per file found; the key of a file is
\* Long(file) when another file found has the same Short, else Short(file)
KeyRule(index, found, Short(_), Long(_)) ==
    /\ {index[k] : k \in DOMAIN index} = found
    /\ Cardinality(DOMAIN index) = Cardinality(found)
    /\ \A k \in DOMAIN index :
           LET p == index[k]
           IN  k = IF \E q \in found \ {p} : Short(q) = Short(p)
                   THEN Long(p) ELSE Short(p)

\* C4: in each File Index the key of a file is its full relative path (for
\* notes without .md) when another file of the kind has the same short
\* name, and its short name otherwise; there is exactly one entry per file.
C4_FileIndexKeys ==
    /\ KeyRule(AsFunction(md_file_index), FoundMd, PathStem, WithSuffixRemoved)
    /\ KeyRule(AsFunction(canvas_file_index), FoundCanvas, PathName, StrOf)
    /\ is_connected => KeyRule(media_file_index, FoundMedia, PathName, StrOf)

\* two notes named A, keyed by their paths, and one image keyed by its name
C4_Witness ==
    /\ is_connected
    /\ Keys(md_file_index) = {NameA, NameXA}
    /\ Get(md_file_index, NameXA) = FileXA
    /\ DOMAIN media_file_index = {NameP}

\* the wikilink targets of note n as its text has them: every [[...]] that is
\* not an embed, in order, without alias, header and .md; in default mode
\* without the canvas targets
NormalizedTargets(n) ==
    LET matches == fs[Get(md_file_index, n)].links
        plain == SelectSeq(matches, LAMBDA g : g[1] = "")
        targets ==
            [k \in DOMAIN plain |->
                RemoveSuffixMd(remove_aliases_from_wikilink_regex_match(plain[k][2]))]
    IN  IF attachments = "False"
        THEN SelectSeq(targets, LAMBDA t : ~EndsWithCanvas(t))
        ELSE targets

\* C5: on a connected Vault get_wikilinks(n) is, for every note n, the list
\* of the normalized wikilink targets of n in their order in the note, one
\* per occurrence (in default mode without the canvas targets).
C5_WikilinksInOrderWithRepeats ==
    is_connected =>
        \A n \in Keys(md_file_index) : get_wikilinks(n) = Ok(NormalizedTargets(n))

\* a note that links the same note twice
C5_Witness ==
    /\ is_connected
    /\ NameA \in Keys(md_file_index)
    /\ get_wikilinks(NameA) = Ok(<<NameA, NameA>>)

\* C6: on a connected Vault, for every note a and graph node b, the count of
\* a in get_backlink_counts(b) (0 when absent) is the number of occurrences
\* of b in get_wikilinks(a), plus those in get_embedded_files(a) when
\* attachments=True.
C6_BacklinkCountsAreOccurrences ==
    is_connected =>
        \A a \in Keys(md_file_index), b \in graph.nodes :
            LET counts == get_backlink_counts(b).value
                given == IF a \in DOMAIN counts THEN counts[a] ELSE 0
            IN  given = Count(get_wikilinks(a).value, b)
                        + (IF attachments = "True"
                           THEN Count(get_embedded_files(a).value, b) ELSE 0)

\* C7: after connect(attachments=False) the lengths of get_backlinks over
\* all graph nodes and of get_wikilinks over all notes have the same sum.
C7_BacklinksEqualWikilinks ==
    (is_connected /\ attachments = "False") =>
        SumFn([n \in graph.nodes |-> Len(get_backlinks(n).value)])
        = SumFn([n \in Keys(md_file_index) |-> Len(get_wikilinks(n).value)])

\* a default-mode graph with a note linked twice by one note
C7_Witness ==
    /\ is_connected
    /\ attachments = "False"
    /\ \E n \in graph.nodes : \E a \in Keys(md_file_index) :
           Count(get_backlinks(n).value, a) > 1

\* C8: after connect() with the defaults, the n_backlinks and n_wikilinks
\* columns of get_note_metadata() have the same sum.
C8_MetadataTotalsEqual ==
    (is_connected /\ attachments = "False") =>
        ColumnSum(get_note_metadata.value, "n_backlinks")
        = ColumnSum(get_note_metadata.value, "n_wikilinks")

\* the link targets that are nodes of the graph
LinkTargetNodes ==
    (LinkedSet(wikilinks_index) \cup LinkedSet(embedded_files_index))
        \cap graph.nodes

\* the six classes of a link target
ClassesOf(t) ==
    {c \in {"note", "media", "canvas", "nonexistent_note", "nonexistent_media",
            "nonexistent_canvas"} :
        \/ c = "note" /\ t \in Keys(md_file_index)
        \/ c = "media" /\ t \in DOMAIN media_file_index
        \/ c = "canvas" /\ t \in Keys(canvas_file_index)
        \/ c = "nonexistent_note" /\ t \in nonexistent_notes
        \/ c = "nonexistent_media" /\ t \in nonexistent_media_files
        \/ c = "nonexistent_canvas" /\ t \in nonexistent_canvas_files}

\* C9: on a connected Vault every link target that is a graph node is in
\* exactly one of the six classes.
C9_TargetsInExactlyOneClass ==
    is_connected => \A t \in LinkTargetNodes : Cardinality(ClassesOf(t)) = 1

\* C10: on a connected Vault every nonexistent note has a backlink and is
\* not a key of md_file_index, media_file_index or canvas_file_index.
C10_NonexistentNotesAreLinkedAndFileless ==
    is_connected =>
        \A n \in nonexistent_notes :
            /\ Len(backlinks_index[n]) >= 1
            /\ n \notin Keys(md_file_index)
            /\ n \notin DOMAIN media_file_index
            /\ n \notin Keys(canvas_file_index)

\* the media and canvas files that exist anywhere in the directory
ExistingMedia == Range(get_all_valid_media_file_relpaths(SetToSeq(DOMAIN fs)))
ExistingCanvas == Range(get_all_valid_canvas_file_relpaths(SetToSeq(DOMAIN fs)))

\* C11: on a connected Vault no short name of an existing media file is in
\* nonexistent_canvas_files and no short name of an existing canvas file is
\* in nonexistent_media_files, at the root or in a subdirectory.
C11_NoCrossKindPlaceholders ==
    is_connected =>
        /\ \A p \in ExistingMedia : PathName(p) \notin nonexistent_canvas_files
        /\ \A p \in ExistingCanvas : PathName(p) \notin nonexistent_media_files

\* C12: on a connected Vault isolated_notes is the set of keys of
\* md_file_index whose node has degree zero, and for each of them
\* get_backlink_counts is the empty mapping and get_wikilinks the empty list.
C12_IsolatedNotesHaveNoLinks ==
    is_connected =>
        /\ isolated_notes =
               {n \in Keys(md_file_index) : n \in graph.nodes /\ Degree(graph, n) = 0}
        /\ \A n \in isolated_notes :
               /\ get_backlink_counts(n) = Ok(<<>>)
               /\ get_wikilinks(n) = Ok(<<>>)

C14_IsolatedFilesAreZeroDegreeNodes ==
    (is_connected /\ attachments = "True") =>
        \A f \in isolated_media_files \cup isolated_canvas_files :
            /\ f \in graph.nodes
            /\ backlinks_index[f] = <<>>
            /\ Degree(graph, f) = 0

\* C15: on a connected Vault, with attachments=False and with
\* attachments=True, the n_backlinks column of get_all_file_metadata() sums
\* to the sum of its n_wikilinks column plus the sum of its n_embedded_files
\* column.
C15_AllFileMetadataTotals ==
    is_connected =>
        ColumnSum(get_all_file_metadata.value, "n_backlinks")
        = ColumnSum(get_all_file_metadata.value, "n_wikilinks")
          + ColumnSum(get_all_file_metadata.value, "n_embedded_files")

\* the note and canvas files of the directory, and those the Vault includes
NoteAndCanvasFiles == {p \in DOMAIN fs : PathSuffix(p) \in {ExtMd, ExtCanvas}}
IncludedFiles ==
    {Get(md_file_index, k) : k \in Keys(md_file_index)}
        \cup {Get(canvas_file_index, k) : k \in Keys(canvas_file_index)}

\* two paths are the same path: they have the same components
SamePath(a, b) == RemoveAtom(a, "/") = RemoveAtom(b, "/")

AtRoot(p) == ParentPosix(p) = <<".">>

\* the parent directory of p is one of the allow-listed paths, or is the root
\* with include_root
ParentAllowed(p) ==
    \/ \E a \in Range(arg_include_subdirs.items) : SamePath(ParentPosix(p), a)
    \/ AtRoot(p) /\ arg_include_root

\* C16 as stated: with an allow-list (any list), a file is included exactly
\* when its parent directory is allow-listed or is the root with
\* include_root; without one, every file but the root's files when
\* include_root is false.
C16_AllowListAsStated ==
    \A p \in NoteAndCanvasFiles :
        p \in IncludedFiles <=>
            IF ~arg_include_subdirs.is_none THEN ParentAllowed(p)
            ELSE ~AtRoot(p) \/ arg_include_root

\* C16: with a non-empty allow-list, a note or canvas file is included
\* exactly when its direct parent directory is one of the allow-listed paths,
\* or is the root and include_root is true (a file deeper under an
\* allow-listed directory is not included); without an allow-list, or with
\* an empty one, every file is included except the root's files when
\* include_root is false.
C16_SubdirectoryFilter ==
    \A p \in NoteAndCanvasFiles :
        p \in IncludedFiles <=>
            IF ~arg_include_subdirs.is_none /\ arg_include_subdirs.items # <<>>
            THEN ParentAllowed(p)
            ELSE ~AtRoot(p) \/ arg_include_root

\* with the allow-list ['X/'] the note X/A.md is included and the deeper
\* note X/Y/A.md is not
C16_Witness ==
    /\ arg_include_subdirs = ListOf(<< <<"X", "/">> >>)
    /\ {FileXA, FileXYA} \subseteq DOMAIN fs
    /\ FileXA \in IncludedFiles
    /\ FileXYA \notin IncludedFiles
    /\ is_connected

\* the one link of the note A.md: its kind ("" or "!") and its raw text
TheLink == fs[FileA].links[1]

\* the raw text without its backslashes
Unescaped(text) == RemoveAtom(text, "\\")

\* t is what is left of the text u when the alias and the header are cut off:
\* t is the start of u, holds no "|" and no "#", and is followed in u by a
\* "#", or does not end with a space and is followed by spaces only up to the
\* first "|" or the end of u
IsTargetOf(t, u) ==
    /\ Len(t) <= Len(u)
    /\ t = SubSeq(u, 1, Len(t))
    /\ \A k \in DOMAIN t : t[k] \notin {"|", "#"}
    /\ LET rest == SubSeq(u, Len(t) + 1, Len(u))
       IN  \/ rest # <<>> /\ rest[1] = "#"
           \/ /\ t = <<>> \/ t[Len(t)] # " "
              /\ \E j \in 0..Len(rest) :
                     /\ \A k \in 1..j : rest[k] = " "
                     /\ j = Len(rest) \/ rest[j + 1] = "|"

\* the target that C17 states: the text cut before the first "|" without a
\* backslash before it (the spaces before that "|" left out), then before
\* the first "#", without backslashes and without one ".md" at its end
StatedWikilinkTarget(text) ==
    LET bars == {k \in DOMAIN text : text[k] = "|" /\ (k = 1 \/ text[k - 1] # "\\")}
        cut == IF bars = {} THEN Len(text) + 1
               ELSE CHOOSE k \in bars : \A j \in bars : k <= j
        before_alias == RStrip(SubSeq(text, 1, cut - 1))
        before_header == SubSeq(before_alias, 1, FirstIndexOf(before_alias, "#") - 1)
    IN  RemoveSuffixMd(Unescaped(before_header))

\* C17 as stated: the wikilink target is the text cut before the first
\* unescaped "|" (an escaped "|" being no alias separator), then before the
\* first "#", with backslashes and one trailing ".md" removed.
C17_TargetCutAtUnescapedPipe ==
    (is_connected /\ TheLink[1] = "") =>
        get_wikilinks(NameA) = Ok(<<StatedWikilinkTarget(TheLink[2])>>)

\* C17: the wikilink target is the text with every backslash removed, cut
\* before its first "|" (escaped or not), with the spaces at the end of that
\* part stripped, then cut before the first "#", and with one trailing ".md"
\* removed.
C17_WikilinkTargetNormalized ==
    (is_connected /\ TheLink[1] = "") =>
        \E t \in {<<>>} \cup LinkTexts :
            /\ IsTargetOf(t, Unescaped(TheLink[2]))
            /\ get_wikilinks(NameA) =
                   Ok(<<IF t # <<>> /\ t[Len(t)] = ".md"
                        THEN SubSeq(t, 1, Len(t) - 1) ELSE t>>)

\* the link [[A\|A]], as written in a table, has the target A
C17_Witness ==
    /\ is_connected
    /\ TheLink = <<"", <<"A", "\\", "|", "A">> >>
    /\ get_wikilinks(NameA) = Ok(<<NameA>>)

\* C18 as stated: the target of an embedded file is the text cut at the "|"
\* only; a "#" fragment is kept.
C18_EmbedKeepsHeader ==
    (is_connected /\ TheLink[1] = "!") =>
        LET u == Unescaped(TheLink[2])
        IN  get_embedded_files(NameA) =
                Ok(<<RStrip(SubSeq(u, 1, FirstIndexOf(u, "|") - 1))>>)

\* C18: the target of an embedded file is cut like the target of a wikilink,
\* before the alias separator "|" and before the "#" of a fragment; only the
\* extension is kept, a trailing ".md" included.
C18_EmbedTargetNormalized ==
    (is_connected /\ TheLink[1] = "!") =>
        \E t \in {<<>>} \cup LinkTexts :
            /\ IsTargetOf(t, Unescaped(TheLink[2]))
            /\ get_embedded_files(NameA) = Ok(<<t>>)

\* the embed ![[A.md#A]] is recorded as A.md
C18_Witness ==
    /\ is_connected
    /\ TheLink = <<"!", <<"A", ".md", "#", "A">> >>
    /\ get_embedded_files(NameA) = Ok(<< <<"A", ".md">> >>)

\* the files that the indexes list, and the notes among them
IndexedFiles == IncludedFiles
AllIndexedFilesOpen == \A p \in IndexedFiles : CanOpen(fs[p])
BlockOf(n) == fs[Get(md_file_index, n)].front_matter

\* C19: when every listed file can be opened, connect() and gather() do not
\* fail, whatever the front matter blocks of the notes are; a note with
\* invalid YAML has the empty front matter and its whole text as content; a
\* note with a template block has the front matter of the re-escaped text,
\* or the empty front matter and its whole text when the second parse fails.
C19_UndecodableFrontMatterNeverFails ==
    AllIndexedFilesOpen =>
        /\ call.op \in {"connect", "gather"} => result = "ok"
        /\ \A n \in Keys(md_file_index) :
               /\ (is_connected /\ BlockOf(n) \in {"scanner_error", "parser_error"})
                      => get_front_matter(n) = Ok("{}")
               /\ (is_gathered /\ BlockOf(n) \in {"scanner_error", "parser_error"})
                      => get_source_text(n).value[1] = "whole"
               /\ (is_connected /\ BlockOf(n) = "template")
                      => get_front_matter(n) \in {Ok("fm_escaped"), Ok("{}")}

\* the kinds of outcome of the per-note accessors for the name n
AccessorOutcomes(n) ==
    {get_backlinks(n).kind, get_backlink_counts(n).kind, get_wikilinks(n).kind,
     get_wikilink_counts(n).kind, get_embedded_files(n).kind,
     get_md_links(n).kind, get_front_matter(n).kind, vault_get_tags(n).kind}

\* C20: when connect() runs on a Vault that is not connected and a note or
\* canvas file listed in an index cannot be opened, connect() raises,
\* is_connected stays False, the graph stays as it was (unset on a Vault that
\* was never connected), and each per-note accessor raises AttributeError
\* afterwards.
C20_UnreadableFileFailsConnect ==
    [][(~is_connected /\ call'.op = "connect" /\ ~AllIndexedFilesOpen
           /\ fs' = fs)
          => /\ result' \notin {"ok", "none"}
             /\ ~is_connected'
             /\ graph' = graph
             /\ \A n \in QueryNames : AccessorOutcomes(n)' = {"AttributeError"}]_vars

\* connect() raised on the second note after the first note was read into the
\* indexes; the Vault is not connected and has no graph
C20_Witness ==
    /\ call.op = "connect"
    /\ result = "OSError"
    /\ ~is_connected
    /\ graph = NoneGraph
    /\ DOMAIN wikilinks_index # {}
    /\ DOMAIN wikilinks_index # Keys(md_file_index)

\* the multiset of the edges of a graph
EdgeBag(g) == [e \in Range(g.edges) |-> Count(g.edges, e)]

\* the part of what connect() builds that is compared between two runs
OrderFreePart(g, nn, nm, nc, isn, ism, isc) ==
    [nodes |-> g.nodes, edges |-> EdgeBag(g), nonexistent_notes |-> nn,
     nonexistent_media_files |-> nm, nonexistent_canvas_files |-> nc,
     isolated_notes |-> isn, isolated_media_files |-> ism,
     isolated_canvas_files |-> isc]

\* the file index of the notes of a Vault built on the directory of the
\* state when the file system lists it in the order `listing`
NotesListed(listing) ==
    get_md_relpaths_by_name(listing, arg_include_subdirs, arg_include_root)

\* that part of the connect() of a newly built Vault on the directory of the
\* state, the directory being listed in the order `listing` and the notes
\* entering the graph in the order `key_order`
OtherRun(listing, key_order) ==
    LET o == ConnectOutcome(
                 NotesListed(listing),
                 get_canvas_relpaths_by_name(listing, arg_include_subdirs,
                                             arg_include_root),
                 listing, key_order, FALSE, attachments = "True", {}, <<>>)
    IN  OrderFreePart(o.graph, o.nonexistent_notes, o.nonexistent_media_files,
                      o.nonexistent_canvas_files, o.isolated_notes,
                      o.isolated_media_files, o.isolated_canvas_files)

\* C21: for the same vault contents, a connect() run that meets the files and
\* the notes in any other order gives the same graph node set, the same
\* multiset of edges and the same nonexistent and isolated sets as the run
\* that built the state.
C21_ConnectIsOrderIndependent ==
    is_connected =>
        \A listing \in Orders(DOMAIN fs) :
            \A key_order \in
                    (IF attachments = "True" THEN Orders(Keys(NotesListed(listing)))
                     ELSE {KeySeq(NotesListed(listing))}) :
                OtherRun(listing, key_order)
                    = OrderFreePart(graph, nonexistent_notes,
                                    nonexistent_media_files, nonexistent_canvas_files,
                                    isolated_notes, isolated_media_files,
                                    isolated_canvas_files)

\* a connected Vault with attachments on notes of the same name, with two
\* links or more, whose notes were met in another order than the first
\* listing of the directory gives
C21_Witness ==
    /\ is_connected
    /\ attachments = "True"
    /\ {FileA, FileXA} \subseteq DOMAIN fs
    /\ Len(graph.edges) >= 2
    /\ KeySeq(md_file_index) # KeySeq(NotesListed(SetToSeq(DOMAIN fs)))
    /\ nonexistent_notes # {}

\* the file indexes, the graph and the derived lists of the Vault, as far as
\* two Vaults are compared (dicts by their entries, the graph by its nodes
\* and the multiset of its edges, the lists by their elements)
ThisVault ==
    [md_file_index |-> AsFunction(md_file_index),
     canvas_file_index |-> AsFunction(canvas_file_index),
     media_file_index |-> media_file_index,
     built |-> OrderFreePart(graph, nonexistent_notes, nonexistent_media_files,
                             nonexistent_canvas_files, isolated_notes,
                             isolated_media_files, isolated_canvas_files)]

\* the same for a Vault newly constructed on the directory of the state, with
\* the arguments of the Vault, and connected with attachments=att
NewVault(att) ==
    LET listing == SetToSeq(DOMAIN fs)
        md == NotesListed(listing)
        cv == get_canvas_relpaths_by_name(listing, arg_include_subdirs,
                                          arg_include_root)
        o == ConnectOutcome(md, cv, listing, KeySeq(md), FALSE, att, {}, <<>>)
    IN  [md_file_index |-> AsFunction(md),
         canvas_file_index |-> AsFunction(cv),
         media_file_index |-> o.media_file_index,
         built |-> OrderFreePart(o.graph, o.nonexistent_notes,
                                 o.nonexistent_media_files,
                                 o.nonexistent_canvas_files, o.isolated_notes,
                                 o.isolated_media_files, o.isolated_canvas_files)]

\* a step that is a successful connect() right after the reset of the Vault;
\* the step leaves the directory as it is
Reconnected == call.op = "reset" /\ call'.op = "connect" /\ result' = "ok"

IndexesMatchDirectory ==
    LET listing == SetToSeq(DOMAIN fs)
    IN  /\ AsFunction(md_file_index) = AsFunction(NotesListed(listing))
        /\ AsFunction(canvas_file_index) =
               AsFunction(get_canvas_relpaths_by_name(
                   listing, arg_include_subdirs, arg_include_root))
        /\ \/ DOMAIN media_file_index = {}
           \/ media_file_index =
                  AsFunction(get_shortest_path_by_filename(
                      get_all_valid_media_file_relpaths(listing)))

\* every file that the note and canvas indexes name is in the directory
AllIndexedFilesPresent ==
    /\ \A i \in DOMAIN md_file_index : md_file_index[i][2] \in DOMAIN fs
    /\ \A i \in DOMAIN canvas_file_index : canvas_file_index[i][2] \in DOMAIN fs

TextAccessors == {"get_source_text", "get_readable_text"}

\* C23: get_source_text and get_readable_text raise AttributeError exactly
\* when gather() has not run on the Vault, connected or not; is_gathered
\* becomes true by gather() and by nothing else; once gather() has run they
\* raise ValueError exactly when the name is no key of md_file_index.
C23_TextAccessorsNeedGather ==
    [][/\ is_gathered' = (is_gathered \/ call'.op = "gather")
       /\ call'.op \in TextAccessors =>
              /\ (result' = "AttributeError") = ~is_gathered
              /\ is_gathered =>
                     ((result' = "ValueError") = (call'.arg \notin Keys(md_file_index)))
              /\ result' \in {"AttributeError", "ValueError", "ok"}]_vars

\* get_source_text has raised AttributeError on a Vault that is connected and
\* not gathered
C23_Witness ==
    /\ call.op = "get_source_text"
    /\ result = "AttributeError"
    /\ is_connected
    /\ ~is_gathered

\* the accessors that return a table on the whole vault
TableAccessors ==
    {"get_note_metadata", "get_media_file_metadata", "get_canvas_file_metadata",
     "get_all_file_metadata"}

\* the Vault has never been connected: connect() has not set attachments
NeverConnected == attachments = "None"

\* C24: before connect() has been called, get_note_metadata,
\* get_media_file_metadata, get_canvas_file_metadata and
\* get_all_file_metadata each raise AttributeError and return no table.
C24_TablesNeedConnect ==
    [][(call'.op \in TableAccessors /\ NeverConnected) =>
           result' = "AttributeError"]_vars

\* C25: after connect(), get_wikilink_counts(n) succeeds for every node n of
\* the graph and returns the tally of the wikilink targets of n, every value
\* being at least 1; it raises ValueError only when n is no node of the graph.
C25_WikilinkCountsForEveryNode ==
    [][(call'.op = "get_wikilink_counts" /\ is_connected) =>
           LET n == call'.arg
               out == get_wikilink_counts(n)
           IN  /\ result' = out.kind
               /\ n \notin graph.nodes => out.kind = "ValueError"
               /\ n \in graph.nodes =>
                      /\ out.kind = "ok"
                      /\ \A t \in DOMAIN out.value : out.value[t] >= 1
                      /\ n \in DOMAIN wikilinks_index =>
                             /\ DOMAIN out.value = Range(wikilinks_index[n])
                             /\ \A t \in DOMAIN out.value :
                                    out.value[t] = Count(wikilinks_index[n], t)]_vars

\* C26: after connect(), backlinks_index has exactly the graph's nodes as
\* its keys, and for every node n get_backlink_counts(n) is the tally of
\* get_backlinks(n): its keys are the distinct sources of the list, every
\* value is at least 1, and the values sum to the length of the list.
C26_BacklinkCountsTallyBacklinks ==
    is_connected =>
        /\ DOMAIN backlinks_index = graph.nodes
        /\ \A n \in graph.nodes :
               LET backlinks == get_backlinks(n)
                   counts == get_backlink_counts(n)
               IN  /\ backlinks.kind = "ok"
                   /\ counts.kind = "ok"
                   /\ DOMAIN counts.value = Range(backlinks.value)
                   /\ \A k \in DOMAIN counts.value :
                          /\ counts.value[k] >= 1
                          /\ counts.value[k] = Count(backlinks.value, k)
                   /\ SumFn(counts.value) = Len(backlinks.value)

\* get_backlink_counts has returned on a connected Vault whose graph has a
\* node that one note links to twice
C26_Witness ==
    /\ is_connected
    /\ call.op = "get_backlink_counts"
    /\ result = "ok"
    /\ \E n \in graph.nodes :
           \E k \in Range(backlinks_index[n]) : Count(backlinks_index[n], k) >= 2

\* the position of the first occurrence of x in the list w
FirstOccurrence(w, x) == CHOOSE i \in DOMAIN w : w[i] = x /\ \A j \in 1..(i - 1) : w[j] # x

\* the list u is the list w with duplicates removed and the order of the
\* first occurrences kept
IsOrderedSetOf(u, w) ==
    /\ \A i, j \in DOMAIN u : i # j => u[i] # u[j]
    /\ Range(u) = Range(w)
    /\ \A i, j \in DOMAIN u :
           i < j => FirstOccurrence(w, u[i]) < FirstOccurrence(w, u[j])

\* C27: for every note n, unique_wikilinks_index[n] is wikilinks_index[n]
\* with duplicates removed and first-occurrence order kept, and
\* unique_md_links_index[n] is md_links_index[n] in the same way.
C27_UniqueIndexesAreOrderedSets ==
    is_connected =>
        \A n \in Keys(md_file_index) :
            /\ IsOrderedSetOf(unique_wikilinks_index[n], wikilinks_index[n])
            /\ IsOrderedSetOf(unique_md_links_index[n], md_links_index[n])

\* a connected Vault with a note whose wikilinks and markdown links repeat
\* their first target after another one
C27_Witness ==
    /\ is_connected
    /\ \E n \in Keys(md_file_index) :
           /\ Len(unique_wikilinks_index[n]) = 2
           /\ Len(wikilinks_index[n]) = 3
           /\ wikilinks_index[n][3] = wikilinks_index[n][1]
           /\ Len(unique_md_links_index[n]) = 2
           /\ Len(md_links_index[n]) = 3
           /\ md_links_index[n][3] = md_links_index[n][1]

\* C28: in the graph that get_canvas_graph_detail returns for a canvas, no
\* node of type 'group' of the canvas is a node of the graph, also when an
\* edge of the canvas starts or ends at a group node.
C28_NoGroupNodeInCanvasGraph ==
    is_connected =>
        \A k \in DOMAIN canvas_content_index :
            \A i \in Range(CanvasNodes(canvas_content_index[k])) :
                TypeOf(i) = "group" => i.id \notin canvas_graph_detail_index[k].G.nodes

\* C29: gather() can be called in any state of the Vault, before or after
\* connect() and repeatedly; it changes only source_text_index,
\* readable_text_index and is_gathered: after it both text indexes have the
\* keys of md_file_index, and is_connected, the graph, the file indexes and
\* every index that connect() fills are unchanged.
C29_GatherOnlyStoresTexts ==
    [][call'.op = "gather" =>
           /\ result' = "ok"
           /\ is_gathered'
           /\ DOMAIN source_text_index' = Keys(md_file_index)
           /\ DOMAIN readable_text_index' = Keys(md_file_index)
           /\ UNCHANGED <<md_file_index, canvas_file_index, connectVars>>]_vars

\* gather() has run on a connected Vault with two notes
C29_Witness ==
    /\ call.op = "gather"
    /\ result = "ok"
    /\ is_connected
    /\ is_gathered
    /\ Cardinality(DOMAIN source_text_index) >= 2

\* C30: after connect(), with or without an include_subdirs / include_root
\* filter, every name in isolated_canvas_files is a key of canvas_file_index
\* and every name in isolated_media_files is a key of media_file_index.
C30_IsolatedFilesAreIndexed ==
    is_connected =>
        /\ isolated_canvas_files \subseteq Keys(canvas_file_index)
        /\ isolated_media_files \subseteq DOMAIN media_file_index

====
